---- MODULE Spec2Model ----
(***************************************************************************)
(* CitizenConnect complaint registry (src/main.py): the in-memory store DB *)
(* and the four handlers over it, create_complaint, list_complaints,       *)
(* update_status and stats.                                                *)
(*                                                                         *)
(* DB is a Python dict: it is modelled as the sequence of its values in    *)
(* insertion order, at most one value per complaint_id; storing under a    *)
(* key already present replaces the value in place.                        *)
(*                                                                         *)
(* A complaint keeps complaint_id, status, timestamp and category.  The    *)
(* other eight request fields (user_id, text, voice_url, priority, level,  *)
(* district, location, assigned_to) travel through exactly the code path   *)
(* of category (payload.model_dump() at creation, never written again)     *)
(* and are represented by it.                                              *)
(*                                                                         *)
(* complaint_id is "CC<year>-<6 hex digits of a fresh uuid4>".  The model  *)
(* covers requests made within one calendar year, so an identifier is      *)
(* determined by its hex part, drawn from 1..NumIds.                       *)
(***************************************************************************)
EXTENDS Integers, Sequences, FiniteSets

\* ---------------------------------------------------------------- bounds
\* Size of the identifier space (16^6 in the program).
NumIds == 3
\* Last clock reading of a run; the clock starts at 1.
MaxClock == 3
\* How many of the ten categories requests use.
NumCategories == 2
\* Concurrent runs: how many writing requests other threads serve in a run.
MaxWrites == 3

\* ------------------------------------------------------------- constants
CategoryList ==
    << "Roads", "Water", "Electricity", "Health", "Education", "Sanitation",
       "Public Transport", "Waste Management", "Safety", "Others" >>

Category == { CategoryList[i] : i \in 1..NumCategories }

Status == { "Pending", "In Progress", "Resolved" }

\* The absent query parameter / the absent dict entry.
None == "None"

HexIds == 1..NumIds

ComplaintIn == [ category : Category ]

VARIABLES
    DB,     \* the store: complaints in insertion order, one per complaint_id
    now,    \* the latest reading of the UTC clock
    resp,   \* the request last answered and its response
    st,     \* the locals of a stats call in progress (concurrent runs)
    nreq    \* writing requests served by other threads (concurrent runs)

vars == << DB, now, resp, st, nreq >>

\* ------------------------------------------------------------ dict model
Keys(db) == { db[i].complaint_id : i \in 1..Len(db) }

IndexOf(db, cid) == CHOOSE i \in 1..Len(db) : db[i].complaint_id = cid

\* DB.get(cid) is None
Absent(db, cid) == cid \notin Keys(db)

\* DB.get(cid), for a key that is present
DBGet(db, cid) == db[IndexOf(db, cid)]

\* DB[cid] = comp
DBSet(db, cid, comp) ==
    IF cid \in Keys(db)
    THEN [ db EXCEPT ![IndexOf(db, cid)] = comp ]
    ELSE Append(db, comp)

\* ------------------------------------------------------------- Complaint
\* Variant: the timestamp default is evaluated once, when the class is
\* defined (timestamp: datetime = datetime.utcnow()), not per instance.
ComplaintImportTimeDefault(cid, payload, t) ==
    [ complaint_id |-> cid,
      category     |-> payload.category,
      status       |-> "Pending",
      timestamp    |-> 1 ]

Complaint(cid, payload, t) ==
    [ complaint_id |-> cid,
      category     |-> payload.category,
      status       |-> "Pending",
      timestamp    |-> t ]

\* Variant: the update rebuilds the complaint and so stamps it again.
SetStatusRestamp(comp, s) == [ comp EXCEPT !.status = s, !.timestamp = now ]

\* comp.status = s
SetStatus(comp, s) == [ comp EXCEPT !.status = s ]

\* ------------------------------------------------------- list_complaints
\* [c for c in items if c.status == status]
FilterStatus(items, status) ==
    SelectSeq(items, LAMBDA c : c.status = status)

\* Variant: the sort without reverse=True.
InsertOldestFirst(sorted, x) ==
    LET k == Cardinality({ i \in 1..Len(sorted) :
                             sorted[i].timestamp <= x.timestamp })
    IN  SubSeq(sorted, 1, k) \o << x >> \o SubSeq(sorted, k + 1, Len(sorted))

\* One insertion of a stable descending sort: x, which followed every
\* element of sorted in the input, goes after the elements whose key is not
\* smaller than its own.
InsertNewestFirst(sorted, x) ==
    LET k == Cardinality({ i \in 1..Len(sorted) :
                             sorted[i].timestamp >= x.timestamp })
    IN  SubSeq(sorted, 1, k) \o << x >> \o SubSeq(sorted, k + 1, Len(sorted))

RECURSIVE SortNewestFirst(_)
\* items.sort(key=lambda x: x.timestamp, reverse=True): stable, so equal
\* timestamps keep their input order.
SortNewestFirst(items) ==
    IF Len(items) <= 1
    THEN items
    ELSE InsertNewestFirst(SortNewestFirst(SubSeq(items, 1, Len(items) - 1)),
                           items[Len(items)])

\* Variant: the status parameter is never applied.
ListResultUnfiltered(db, status) == SortNewestFirst(db)

ListResult(db, status) ==
    LET items == IF status # None THEN FilterStatus(db, status) ELSE db
    IN  SortNewestFirst(items)

\* ----------------------------------------------------------------- stats
\* len([c for c in DB.values() if c.status == s])
CountStatus(db, s) == Len(SelectSeq(db, LAMBDA c : c.status = s))

EmptyDict == [ k \in {} |-> 0 ]

\* Variant: by_category[c.category] = 1.
BumpToOne(m, c) == [ k \in DOMAIN m \cup {c} |-> IF k = c THEN 1 ELSE m[k] ]

\* by_category[c.category] = by_category.get(c.category, 0) + 1
Bump(m, c) ==
    [ k \in DOMAIN m \cup {c} |->
        IF k = c THEN (IF c \in DOMAIN m THEN m[c] ELSE 0) + 1 ELSE m[k] ]

RECURSIVE ByCategory(_)
\* for c in DB.values(): ...
ByCategory(db) ==
    IF db = << >>
    THEN EmptyDict
    ELSE Bump(ByCategory(SubSeq(db, 1, Len(db) - 1)), db[Len(db)].category)

StatsBody(total, pending, in_progress, resolved, by_category) ==
    [ total       |-> total,
      pending     |-> pending,
      in_progress |-> in_progress,
      resolved    |-> resolved,
      by_category |-> by_category ]

\* ------------------------------------------------------------- responses
Response(op, arg, code, body) ==
    [ op |-> op, arg |-> arg, code |-> code, body |-> body ]

NoResponse == Response("none", None, 0, None)

\* The locals of stats(); pc names the statement a call in progress runs next.
StatsLocals(pc, total, pending, in_progress, resolved) ==
    [ pc |-> pc, total |-> total, pending |-> pending,
      in_progress |-> in_progress, resolved |-> resolved ]

StatsIdle == StatsLocals("idle", 0, 0, 0, 0)

\* ------------------------------------------------------------------ Init
Init ==
    /\ DB = << >>
    /\ now = 1
    /\ resp = NoResponse
    /\ st = StatsIdle
    /\ nreq = 0

\* --------------------------------------------------------------- actions
\* The clock advances between requests.
Tick ==
    /\ now < MaxClock
    /\ now' = now + 1
    /\ UNCHANGED << DB, resp, st, nreq >>

\* POST /complaints.  The request is received at now; uuid4 draws the hex
\* part; the timestamp default_factory reads the clock when the Complaint is
\* built, at or after the time of receipt.
create_complaint(payload) ==
    \E h \in HexIds, t \in now..MaxClock :
        LET cid  == h
            comp == Complaint(cid, payload, t)
        IN  /\ DB' = DBSet(DB, cid, comp)
            /\ now' = t
            /\ resp' = Response("create", payload, 200, comp)
            /\ UNCHANGED st

\* GET /complaints[?status=...]
list_complaints(status) ==
    /\ resp' = Response("list", status, 200, ListResult(DB, status))
    /\ UNCHANGED << DB, now, st >>

\* Variant: the not-found branch returns instead of raising.
update_status_no_raise(complaint_id, status) ==
    IF Absent(DB, complaint_id)
    THEN /\ resp' = Response("update", << complaint_id, status >>, 200, None)
         /\ UNCHANGED << DB, now, st >>
    ELSE LET upd == SetStatus(DBGet(DB, complaint_id), status)
         IN  /\ DB' = DBSet(DB, complaint_id, upd)
             /\ resp' = Response("update", << complaint_id, status >>,
                                 200, upd)
             /\ UNCHANGED << now, st >>

\* Variant: a resolved complaint is final.
update_status_resolved_final(complaint_id, status) ==
    IF Absent(DB, complaint_id)
    THEN /\ resp' = Response("update", << complaint_id, status >>, 404,
                             "Complaint not found")
         /\ UNCHANGED << DB, now, st >>
    ELSE IF DBGet(DB, complaint_id).status = "Resolved" /\ status # "Resolved"
    THEN /\ resp' = Response("update", << complaint_id, status >>, 409,
                             "Complaint already resolved")
         /\ UNCHANGED << DB, now, st >>
    ELSE LET upd == SetStatus(DBGet(DB, complaint_id), status)
         IN  /\ DB' = DBSet(DB, complaint_id, upd)
             /\ resp' = Response("update", << complaint_id, status >>,
                                 200, upd)
             /\ UNCHANGED << now, st >>

\* PATCH /complaints/{complaint_id}
update_status(complaint_id, status) ==
    LET comp == DBGet(DB, complaint_id)
    IN  IF Absent(DB, complaint_id)
        THEN /\ resp' = Response("update", << complaint_id, status >>, 404,
                                 "Complaint not found")
             /\ UNCHANGED << DB, now, st >>
        ELSE LET upd == SetStatus(comp, status)
             IN  /\ DB' = DBSet(DB, complaint_id, upd)
                 /\ resp' = Response("update", << complaint_id, status >>,
                                     200, upd)
                 /\ UNCHANGED << now, st >>

\* GET /stats, run without interruption.
stats ==
    /\ resp' = Response("stats", None, 200,
                        StatsBody(Len(DB),
                                  CountStatus(DB, "Pending"),
                                  CountStatus(DB, "In Progress"),
                                  CountStatus(DB, "Resolved"),
                                  ByCategory(DB)))
    /\ UNCHANGED << DB, now, st >>

\* One request at a time, each handler run to completion.
Create ==
    /\ \E payload \in ComplaintIn : create_complaint(payload)
    /\ UNCHANGED nreq

List ==
    /\ \E status \in Status \cup {None} : list_complaints(status)
    /\ UNCHANGED nreq

Update ==
    /\ \E cid \in HexIds, status \in Status : update_status(cid, status)
    /\ UNCHANGED nreq

Stats ==
    /\ stats
    /\ UNCHANGED nreq

Next ==
    \/ Tick
    \/ Create
    \/ List
    \/ Update
    \/ Stats

Spec == Init /\ [][Next]_vars

\* ------------------------------------------------- stats, statement-wise
\* The handlers are plain functions, which the framework runs on worker
\* threads; no lock guards DB.  A stats call makes five passes over DB, and
\* requests served by other threads may run between two passes.

\* total = len(DB)
stats_total ==
    /\ st.pc = "idle"
    /\ st' = StatsLocals("pending", Len(DB), 0, 0, 0)
    /\ UNCHANGED << DB, now, resp, nreq >>

\* pending = len([... "Pending"])
stats_pending ==
    /\ st.pc = "pending"
    /\ st' = [ st EXCEPT !.pc = "in_progress",
                         !.pending = CountStatus(DB, "Pending") ]
    /\ UNCHANGED << DB, now, resp, nreq >>

\* in_progress = len([... "In Progress"])
stats_in_progress ==
    /\ st.pc = "in_progress"
    /\ st' = [ st EXCEPT !.pc = "resolved",
                         !.in_progress = CountStatus(DB, "In Progress") ]
    /\ UNCHANGED << DB, now, resp, nreq >>

\* resolved = len([... "Resolved"])
stats_resolved ==
    /\ st.pc = "resolved"
    /\ st' = [ st EXCEPT !.pc = "by_category",
                         !.resolved = CountStatus(DB, "Resolved") ]
    /\ UNCHANGED << DB, now, resp, nreq >>

\* the by_category loop and the return
stats_by_category ==
    /\ st.pc = "by_category"
    /\ resp' = Response("stats", None, 200,
                        StatsBody(st.total, st.pending, st.in_progress,
                                  st.resolved, ByCategory(DB)))
    /\ st' = StatsIdle
    /\ UNCHANGED << DB, now, nreq >>

\* A create served by another thread: one store into DB.
ConcCreate ==
    /\ nreq < MaxWrites
    /\ \E payload \in ComplaintIn : create_complaint(payload)
    /\ nreq' = nreq + 1

\* An update served by another thread: one attribute store on a stored
\* complaint (the store back into DB puts the same object where it was).
ConcUpdate ==
    /\ nreq < MaxWrites
    /\ \E cid \in HexIds, status \in Status : update_status(cid, status)
    /\ nreq' = nreq + 1

NextConc ==
    \/ Tick
    \/ ConcCreate
    \/ ConcUpdate
    \/ stats_total
    \/ stats_pending
    \/ stats_in_progress
    \/ stats_resolved
    \/ stats_by_category

SpecConc == Init /\ [][NextConc]_vars

\* ------------------------------------------------------------ properties
\* Positions of the stored complaints whose status is s.
StoredWith(s) == { i \in 1..Len(DB) : DB[i].status = s }

\* Positions of the stored complaints whose category is c.
StoredIn(c) == { i \in 1..Len(DB) : DB[i].category = c }

RECURSIVE SumDict(_)
SumDict(m) ==
    IF DOMAIN m = {}
    THEN 0
    ELSE LET k == CHOOSE x \in DOMAIN m : TRUE
         IN  m[k] + SumDict([ x \in DOMAIN m \ {k} |-> m[x] ])

\* C1: every create returns an identifier that no stored complaint holds,
\* so it adds one complaint to the registry and replaces none.
C1_CreateReturnsFreshId ==
    [][ \A p \in ComplaintIn :
          create_complaint(p) =>
            /\ resp'.body.complaint_id \notin Keys(DB)
            /\ Len(DB') = Len(DB) + 1
            /\ SubSeq(DB', 1, Len(DB)) = DB ]_vars

\* C2: the record stored under an identifier keeps its timestamp and its
\* other non-status fields in every later state.
C2_StoredFieldsNeverChange ==
    [][ \A cid \in Keys(DB) :
          /\ cid \in Keys(DB')
          /\ DBGet(DB', cid).timestamp = DBGet(DB, cid).timestamp
          /\ DBGet(DB', cid).category = DBGet(DB, cid).category ]_vars

\* C3: update_status on an identifier that is not stored answers 404
\* "Complaint not found" and leaves the registry as it was.
C3_UpdateMissingIsNotFound ==
    [][ resp'.op = "update" =>
          LET cid == resp'.arg[1]
              s   == resp'.arg[2]
          IN
            (Absent(DB, cid) /\ update_status(cid, s)) =>
              /\ resp'.code = 404
              /\ resp'.body = "Complaint not found"
              /\ DB' = DB ]_vars

C3_Witness ==
    /\ resp.op = "update"
    /\ resp.code = 404
    /\ Len(DB) >= 2
    /\ Absent(DB, resp.arg[1])

\* C4: update_status on a stored identifier sets that complaint's status,
\* returns the updated record, and changes nothing else: not its other
\* fields, not the other complaints, not the set of stored identifiers.
C4_UpdateChangesOnlyStatus ==
    [][ resp'.op = "update" =>
          LET cid == resp'.arg[1]
              s   == resp'.arg[2]
          IN
            (~Absent(DB, cid) /\ update_status(cid, s)) =>
              /\ resp'.code = 200
              /\ resp'.body = [ DBGet(DB, cid) EXCEPT !.status = s ]
              /\ Len(DB') = Len(DB)
              /\ \A i \in 1..Len(DB) :
                   DB'[i] = IF DB[i].complaint_id = cid
                            THEN [ DB[i] EXCEPT !.status = s ]
                            ELSE DB[i]
              /\ Keys(DB') = Keys(DB) ]_vars

C4_Witness ==
    /\ resp.op = "update"
    /\ resp.code = 200
    /\ Len(DB) >= 2
    /\ resp.body.status = "Resolved"
    /\ resp.body.timestamp < now
    /\ DBGet(DB, resp.arg[1]) = resp.body
    /\ \E i \in 1..Len(DB) : DB[i].status # "Resolved"

\* What a list response must hold for the registry it was computed from.
C5_ListContents ==
    resp.op = "list" =>
        LET r == resp.body
            wanted == { i \in 1..Len(DB) :
                          resp.arg = None \/ DB[i].status = resp.arg }
        IN  /\ \A i \in wanted :
                 Cardinality({ j \in 1..Len(r) : r[j] = DB[i] }) = 1
            /\ \A j \in 1..Len(r) : \E i \in wanted : r[j] = DB[i]
            /\ (DB = << >> => r = << >>)

\* C5: list returns exactly the stored complaints that match the filter,
\* each once (all of them without a filter, none on an empty registry), and
\* never changes the registry.
C5_ListReturnsExactlyMatching ==
    /\ []C5_ListContents
    /\ [][ (resp'.op = "list" /\ list_complaints(resp'.arg)) => DB' = DB ]_vars

C5_Witness ==
    /\ resp.op = "list"
    /\ resp.arg = "Resolved"
    /\ Len(resp.body) = 2
    /\ Len(DB) = 3

\* C6: a list response is ordered newest first.
C6_ListNewestFirst ==
    resp.op = "list" =>
        \A j \in 1..(Len(resp.body) - 1) :
            resp.body[j].timestamp >= resp.body[j + 1].timestamp

\* Complaints created at t1 < t2 < t3, some updated since, listed as
\* [t3, t2, t1].
C6_Witness ==
    /\ resp.op = "list"
    /\ resp.arg = None
    /\ Len(resp.body) = 3
    /\ resp.body[1].timestamp > resp.body[2].timestamp
    /\ resp.body[2].timestamp > resp.body[3].timestamp
    /\ DB[1].timestamp < DB[2].timestamp
    /\ DB[2].timestamp < DB[3].timestamp
    /\ \E j \in 1..3 : resp.body[j].status # "Pending"

\* C7: a stats call that runs alone returns the number of stored
\* complaints, the number in each status, and for exactly the categories in
\* use the number of complaints in each.
C7_StatsCounts ==
    resp.op = "stats" =>
        LET b == resp.body
        IN  /\ b.total = Cardinality(Keys(DB))
            /\ b.pending = Cardinality(StoredWith("Pending"))
            /\ b.in_progress = Cardinality(StoredWith("In Progress"))
            /\ b.resolved = Cardinality(StoredWith("Resolved"))
            /\ DOMAIN b.by_category = { DB[i].category : i \in 1..Len(DB) }
            /\ \A c \in DOMAIN b.by_category :
                 b.by_category[c] = Cardinality(StoredIn(c))
            /\ (DB = << >> =>
                  /\ b.total = 0 /\ b.pending = 0
                  /\ b.in_progress = 0 /\ b.resolved = 0
                  /\ DOMAIN b.by_category = {})

\* Categories Roads, Roads, Water give by_category Roads 2, Water 1.
C7_Witness ==
    /\ resp.op = "stats"
    /\ DOMAIN resp.body.by_category = { "Roads", "Water" }
    /\ resp.body.by_category["Roads"] = 2
    /\ resp.body.by_category["Water"] = 1
    /\ resp.body.resolved = 1

\* C8: a create returns, and stores under the returned identifier, a
\* Pending complaint stamped no earlier than the request's receipt, with
\* the submitted fields; a stats call that follows it counts the complaint
\* as pending.
C8_CreateStoresPending ==
    [][ /\ resp'.op = "create" =>
             LET p == resp'.arg
             IN
               create_complaint(p) =>
                 /\ resp'.code = 200
                 /\ resp'.body.status = "Pending"
                 /\ resp'.body.timestamp >= now
                 /\ resp'.body.category = p.category
                 /\ ~Absent(DB', resp'.body.complaint_id)
                 /\ DBGet(DB', resp'.body.complaint_id) = resp'.body
        /\ (resp.op = "create" /\ resp'.op = "stats" /\ stats) =>
               /\ resp.body.complaint_id
                    \in { DB[i].complaint_id : i \in StoredWith("Pending") }
               /\ resp'.body.pending = Cardinality(StoredWith("Pending")) ]_vars

C8_Witness ==
    /\ resp.op = "create"
    /\ resp.body.timestamp = now
    /\ now > 1
    /\ Len(DB) >= 2
    /\ DBGet(DB, resp.body.complaint_id) = resp.body
    /\ \E i \in 1..Len(DB) : DB[i].status # "Pending"

\* The stored statuses are the three defined ones.
C9_StatusAlwaysDefined == \A i \in 1..Len(DB) : DB[i].status \in Status

\* C9: no transition graph: an update of a stored complaint to any of the
\* three statuses succeeds from whatever status it has and leaves it in
\* the new one; a stored status is always one of the three.
C9_AnyStatusFollowsAny ==
    /\ []C9_StatusAlwaysDefined
    /\ [][ resp'.op = "update" =>
             LET cid == resp'.arg[1]
                 s   == resp'.arg[2]
             IN
               (~Absent(DB, cid) /\ update_status(cid, s)) =>
                 /\ resp'.code = 200
                 /\ DBGet(DB', cid).status = s ]_vars

C9_Witness ==
    /\ resp.op = "update"
    /\ resp.code = 200
    /\ resp.body.status = "Pending"
    /\ resp.body.timestamp < now
    /\ \E i \in 1..Len(DB) : DB[i].status = "Resolved"
    /\ \E i \in 1..Len(DB) : DB[i].status = "In Progress"

\* C10: every stats response is a snapshot: total is the sum of the three
\* status counts and the sum of the category counts, also when other
\* threads' requests run between the passes of the stats call.
C10_StatsIsSnapshot ==
    resp.op = "stats" =>
        /\ resp.body.total
             = resp.body.pending + resp.body.in_progress + resp.body.resolved
        /\ resp.body.total = SumDict(resp.body.by_category)

====
